---- MODULE Spec2Model ----
(***************************************************************************)
(* Model of the PickMe query broker (the "Secure PRO Query Handler" edge   *)
(* function) together with the admin console's credit adjustment.          *)
(*                                                                         *)
(* The data store is a set of tables.  One broker request is a sequence of *)
(* steps, one per awaited data-store or provider call; two request slots   *)
(* run concurrently with each other or with one admin console session: a   *)
(* run has two requests, or one request and the console (Casts).           *)
(*                                                                         *)
(* Encodings                                                               *)
(*   - a JavaScript number n is Num(n); undefined, NaN and null are the    *)
(*     records JsUndefined, JsNaN, JsNull, so that arithmetic on a missing *)
(*     property and its JSON serialisation are computed, not assumed;      *)
(*   - a text built by a template literal is the tuple of its parts, a     *)
(*     number among them converted to its decimal text;                    *)
(*   - a JSON body is a function from the keys present to their values     *)
(*     (JSON.stringify drops keys whose value is undefined);               *)
(*   - calls[p] and the req field of inserted rows are history: they       *)
(*     record which request issued which call and are read by no step;     *)
(*     req stands for the row's generated primary key.                     *)
(*                                                                         *)
(* Specifications                                                          *)
(*   Spec       the data store and the network answer every call; only     *)
(*              constraint violations make a write fail.                   *)
(*   SpecFault  as Spec, and up to MaxFaults data-store writes fail.       *)
(*   SpecPolicy the commands of clients other than the broker, each checked *)
(*              against the row level security policies.                   *)
(***************************************************************************)
EXTENDS Integers, Sequences, FiniteSets, TLC

\* ------------------------------------------------------------------ bounds
MaxCredits == 2      \* largest initial credits_remaining
MaxCost    == 2      \* largest credit_cost of an entitlement row
MaxAdjust  == 1      \* largest amount of an admin credit adjustment
MaxFaults  == 1      \* number of injected data-store write failures (SpecFault)

\* --------------------------------------------------------------- constants
Procs == {"r1", "r2"}                       \* concurrent request slots
Casts == {{"r1", "r2"}, {"r1", "admin"}}    \* who may take part in one run
NULL == "NULL"                              \* SQL NULL in a text/uuid column
Undefined == "<undefined>"                  \* a JSON key that is absent
Nil == [nil |-> TRUE]                       \* an unset local of the handler

JsUndefined == [t |-> "undefined"]
JsNaN == [t |-> "NaN"]
JsNull == [t |-> "null"]
Num(n) == [t |-> "num", v |-> n]

\* ------------------------------------------------------------ seeded rows
\* apis rows (migration seed): id -> name, type, service_provider
ApiIds == {"a1", "a2"}
SeedApis == [a \in ApiIds |->
               CASE a = "a1" -> [name |-> "Phone Prefill V2", type |-> "PRO",
                                 service_provider |-> "Signzy"]
                 [] a = "a2" -> [name |-> "Email Validator", type |-> "FREE",
                                 service_provider |-> "Internal"]]
ApiTypes == {"FREE", "PRO", "DISABLED"}
StatusPlan == {"Active", "Inactive"}
PlanIds == {"p1", "p2"}
OfficerIds == {"o1"}
Secret(a) == IF a = "a1" THEN "sk-signzy" ELSE "sk-internal"   \* stored api_key texts

StatusOfficer == {"Active", "Suspended"}
StatusKey == {"Active", "Inactive"}
TxActions == {"Renewal", "Deduction", "Top-up", "Refund"}

VARIABLES
  officers,             \* officers table: id -> row
  plan_apis,            \* plan_apis table: <<plan_id, api_id>> -> row or Nil
  api_keys,             \* api_keys table: api_id -> row or Nil
  queries,              \* queries table: the set of its rows
  credit_transactions,  \* credit_transactions table: the set of its rows
  rate_plans,           \* rate_plans table: id -> row or Nil
  apis,                 \* apis table: id -> row or Nil
  clientHasSql,         \* whether the supabase client object has a member sql
  faultBudget,          \* data-store write failures still to be injected
  pc,                   \* per request slot: the next step of the handler
  request,              \* per slot: the parsed JSON body
  officer,              \* per slot: local const officer
  planAPI,              \* per slot: local const planAPI
  apiDetails,           \* per slot: local const apiDetails
  apiResponse,          \* per slot: local let apiResponse
  response,             \* per slot: the Response returned, or Nil
  calls,                \* per slot: history of the calls the request made
  before,               \* per slot: history, the store when the request arrived
  disturbed,            \* per slot: history, another actor wrote since it arrived
  cachedOfficers,       \* admin console: React state `officers`
  adminPc,              \* admin console: position inside the command in flight
  adminTx,              \* admin console: the arguments of the command in flight
  crud,                 \* admin console: history, the last command and its outcome
  session               \* the last request a client made under row level security

dbVars == <<officers, plan_apis, api_keys, queries, credit_transactions>>
reqVars == <<pc, request, officer, planAPI, apiDetails, apiResponse, response, calls,
            before, disturbed>>
catalogVars == <<rate_plans, apis>>
adminVars == <<cachedOfficers, adminPc, adminTx, crud>>
vars == <<officers, plan_apis, api_keys, queries, credit_transactions, rate_plans, apis,
          clientHasSql, faultBudget,
          pc, request, officer, planAPI, apiDetails, apiResponse, response, calls,
          before, disturbed, cachedOfficers, adminPc, adminTx, crud, session>>

\* ------------------------------------------------------- JavaScript values
\* obj.key for a key the object may lack (part_000:178 reads a column the
\* select of line 61 did not ask for)
JsGet(obj, key) == IF key \in DOMAIN obj THEN obj[key] ELSE JsUndefined

\* x + n for a number n
JsAdd(x, n) == IF x.t = "num" THEN Num(x.v + n)
               ELSE IF x.t = "null" THEN Num(n)
               ELSE JsNaN

\* the value JSON.stringify writes for a numeric property: NaN becomes null
JsonNumber(x) == IF x.t = "num" THEN x ELSE JsNull

\* !x for a string property of the request body
Falsy(x) == x \in {Undefined, ""}

\* JSON.stringify(obj) where the keys in absent hold undefined
Stringify(obj, absent) == [k \in (DOMAIN obj) \ absent |-> obj[k]]

\* Math.abs, Math.max
Abs(n) == IF n < 0 THEN -n ELSE n
Max(a, b) == IF a >= b THEN a ELSE b

\* ------------------------------------------------------------- the broker
\* part_000:51  the fields the handler insists on
ValidRequest(req) ==
  ~(Falsy(req.api_id) \/ Falsy(req.input_data) \/ Falsy(req.officer_id))

\* a JSON error response of a gate
ErrorResponse(status, message) ==
  [status |-> status, body |-> [error |-> message]]

\* variant: the select without the status filter
OfficerSelect_anyStatus(tbl, id) ==
  IF id \in DOMAIN tbl
  THEN [id |-> id, name |-> tbl[id].name, plan_id |-> tbl[id].plan_id,
        credits_remaining |-> tbl[id].credits_remaining, status |-> tbl[id].status]
  ELSE Nil

\* part_000:59-64  officers.select(...).eq(id).eq(status,'Active').single()
OfficerSelect(tbl, id) ==
  IF id \in DOMAIN tbl /\ tbl[id].status = "Active"
  THEN [id |-> id, name |-> tbl[id].name, plan_id |-> tbl[id].plan_id,
        credits_remaining |-> tbl[id].credits_remaining, status |-> tbl[id].status]
  ELSE Nil

\* variant: the select also requires the plan to be Active
PlanAPISelect_activePlanOnly(tbl, plan_id, api_id) ==
  IF <<plan_id, api_id>> \in DOMAIN tbl /\ tbl[<<plan_id, api_id>>] # Nil
     /\ tbl[<<plan_id, api_id>>].enabled
     /\ rate_plans[plan_id] # Nil /\ rate_plans[plan_id].status = "Active"
  THEN [enabled |-> TRUE, credit_cost |-> tbl[<<plan_id, api_id>>].credit_cost]
  ELSE Nil

\* variant: the select without the enabled filter
PlanAPISelect_ignoresEnabled(tbl, plan_id, api_id) ==
  IF <<plan_id, api_id>> \in DOMAIN tbl /\ tbl[<<plan_id, api_id>>] # Nil
  THEN [enabled |-> tbl[<<plan_id, api_id>>].enabled,
        credit_cost |-> tbl[<<plan_id, api_id>>].credit_cost]
  ELSE Nil

\* part_000:74-80  plan_apis.select(...).eq(plan_id).eq(api_id).eq(enabled,true).single()
PlanAPISelect(tbl, plan_id, api_id) ==
  IF <<plan_id, api_id>> \in DOMAIN tbl /\ tbl[<<plan_id, api_id>>] # Nil
     /\ tbl[<<plan_id, api_id>>].enabled
  THEN [enabled |-> TRUE, credit_cost |-> tbl[<<plan_id, api_id>>].credit_cost]
  ELSE Nil

\* variant: the credit gate as a strict test
InsufficientCredits_strict(off, plan) == off.credits_remaining <= plan.credit_cost

\* variant: the credit gate lets every request through
InsufficientCredits_never(off, plan) == FALSE

\* part_000:90  the credit gate
InsufficientCredits(off, plan) == off.credits_remaining < plan.credit_cost

\* part_000:93  the 402 message
InsufficientMessage(off, plan) ==
  <<"Insufficient credits. Required: ", ToString(plan.credit_cost),
    ", Available: ", ToString(off.credits_remaining)>>

\* part_000:100-111  apis.select(name, service_provider, api_keys(api_key,status)).single()
ApiSelect(keys, api_id) ==
  IF api_id \in ApiIds /\ apis[api_id] # Nil
  THEN [name |-> apis[api_id].name, service_provider |-> apis[api_id].service_provider,
        api_keys |-> IF keys[api_id] = Nil THEN Nil
                     ELSE [api_key |-> keys[api_id].api_key, status |-> keys[api_id].status]]
  ELSE Nil

\* variant: the credential gate without the status test
KeyUnusable_ignoresStatus(details) == details = Nil \/ details.api_keys = Nil

\* part_000:113  the credential gate
KeyUnusable(details) ==
  details = Nil \/ details.api_keys = Nil \/ details.api_keys.status # "Active"

\* part_000:126-141  the adapter registry: exact match on the service name
Dispatch(name) ==
  CASE name = "Phone Prefill V2" -> "callSignzyPhonePrefill"
    [] name = "RC Verification" -> "callRCVerification"
    [] name = "Credit History" -> "callCreditHistory"
    [] name = "Cell ID Location" -> "callCellIDLocation"
    [] OTHER -> "default"

\* what the Signzy endpoint may answer: a JSON document, or a transport
\* error / non-2xx status / unparseable body (all of which make the adapter throw)
SignzyFields == <<"name", "email", "alternatePhone", "address", "dob">>
SignzyLabel(f) ==
  CASE f = "name" -> "Name: " [] f = "email" -> "Email: "
    [] f = "alternatePhone" -> "Alt Phone: " [] f = "address" -> "Address: "
    [] f = "dob" -> "DOB: "
Payloads == {[hasResult |-> TRUE, fields |-> {"name"}]}
ProviderOutcomes == {[kind |-> "throw"]} \cup {[kind |-> "ok", data |-> d] : d \in Payloads}

\* part_000:324-339
formatSignzyResponse(resp) ==
  IF ~resp.hasResult THEN <<"No data found for this number">>
  ELSE LET parts == SelectSeq(SignzyFields, LAMBDA f : f \in resp.fields)
       IN IF Len(parts) > 0 THEN [i \in 1..Len(parts) |-> SignzyLabel(parts[i])]
          ELSE <<"Basic verification completed">>

\* variant: the adapter puts the bearer token into its summary
callSignzyPhonePrefill_echoKey(phoneNumber, apiKey, out) ==
  [success |-> TRUE, data |-> out.data, credits_used |-> 2,
   result_summary |-> <<"Bearer ", apiKey>>]

\* part_000:234-270  (called with the provider's answer out, kind = "ok")
callSignzyPhonePrefill(phoneNumber, apiKey, out) ==
  [success |-> TRUE, data |-> out.data, credits_used |-> 2,
   result_summary |-> formatSignzyResponse(out.data)]

\* part_000:272-287
callRCVerification(rcNumber, apiKey) ==
  [success |-> TRUE,
   data |-> [rc_number |-> rcNumber, vehicle_type |-> "Car",
             owner_name |-> "Mock Owner", registration_date |-> "2020-01-15"],
   credits_used |-> 1,
   result_summary |-> <<"RC verification completed for ", rcNumber>>]

\* part_000:289-304
callCreditHistory(panNumber, apiKey) ==
  [success |-> TRUE,
   data |-> [pan_number |-> panNumber, credit_score |-> 750, credit_history |-> "Good"],
   credits_used |-> 5,
   result_summary |-> <<"Credit score: 750 (Good) for PAN ", panNumber>>]

\* part_000:306-322
callCellIDLocation(cellId, apiKey) ==
  [success |-> TRUE,
   data |-> [cell_id |-> cellId, location |-> "New Delhi, India", coverage_radius |-> "2.5 km"],
   credits_used |-> 3,
   result_summary |-> <<"Cell tower ", cellId, " located in New Delhi, India">>]

\* part_000:142-150  the result the catch block substitutes
FailedApiResponse ==
  [success |-> FALSE, error |-> <<"External API call failed">>, credits_used |-> 0,
   result_summary |-> <<"API call failed. Please try again.">>]

\* part_000:125-150  the whole of step 5 for provider answer out
AdapterResult(details, input_data, out) ==
  LET adapter == Dispatch(details.name)
      apiKey == details.api_keys.api_key
  IN CASE adapter = "callSignzyPhonePrefill" ->
            IF out.kind = "ok" THEN callSignzyPhonePrefill(input_data, apiKey, out)
            ELSE FailedApiResponse
       [] adapter = "callRCVerification" -> callRCVerification(input_data, apiKey)
       [] adapter = "callCreditHistory" -> callCreditHistory(input_data, apiKey)
       [] adapter = "callCellIDLocation" -> callCellIDLocation(input_data, apiKey)
       [] OTHER -> FailedApiResponse

\* whether step 5 reaches the network: only the Signzy adapter calls fetch
AdapterOutcomes(details) ==
  IF Dispatch(details.name) = "callSignzyPhonePrefill" THEN ProviderOutcomes
  ELSE {[kind |-> "none"]}

\* variant: the row is written with status Processing, to be completed later
QueryRow_processing(off, plan, details, req, res) ==
  Stringify([officer_id |-> off.id, officer_name |-> off.name, type |-> "PRO",
             category |-> req.category, input_data |-> req.input_data,
             source |-> <<details.name, " (", details.service_provider, ")">>,
             result_summary |-> res.result_summary,
             full_result |-> JsGet(res, "data"),
             credits_used |-> IF res.success THEN plan.credit_cost ELSE 0,
             status |-> "Processing"],
            (IF req.category = Undefined THEN {"category"} ELSE {})
              \cup (IF "data" \in DOMAIN res THEN {} ELSE {"full_result"}))

\* part_000:155-166  the row of step 6, as serialised
QueryRow(off, plan, details, req, res) ==
  Stringify([officer_id |-> off.id, officer_name |-> off.name, type |-> "PRO",
             category |-> req.category, input_data |-> req.input_data,
             source |-> <<details.name, " (", details.service_provider, ")">>,
             result_summary |-> res.result_summary,
             full_result |-> JsGet(res, "data"),
             credits_used |-> IF res.success THEN plan.credit_cost ELSE 0,
             status |-> IF res.success THEN "Success" ELSE "Failed"],
            (IF req.category = Undefined THEN {"category"} ELSE {})
              \cup (IF "data" \in DOMAIN res THEN {} ELSE {"full_result"}))

\* migration:193-208  NOT NULL and CHECK constraints of queries
QueryRowAccepted(tbl, row) ==
  /\ {"officer_name", "type", "category", "input_data"} \subseteq DOMAIN row
  /\ row.type \in {"OSINT", "PRO"}
  /\ row.status \in {"Processing", "Success", "Failed", "Pending"}
  /\ row.officer_id \in DOMAIN tbl

\* variant: step 7 subtracts the cost relative to the stored balance, keeping
\* whatever was added to it since gate 1 read it
DebitedBalance_relative(off, plan) ==
  IF off.id \in DOMAIN officers
  THEN Max(officers[off.id].credits_remaining, off.credits_remaining) - plan.credit_cost
  ELSE off.credits_remaining - plan.credit_cost

\* variant: step 7 subtracts the cost from the balance stored at that moment
DebitedBalance_fromStored(off, plan) ==
  officers[off.id].credits_remaining - plan.credit_cost

\* variant: step 7 writes the balance back without subtracting the cost
DebitedBalance_noDebit(off, plan) == off.credits_remaining

\* part_000:177  the balance step 7 writes
DebitedBalance(off, plan) == off.credits_remaining - plan.credit_cost

\* part_000:178  the counter step 7 writes
DebitedQueries(off) == JsonNumber(JsAdd(JsGet(off, "total_queries"), 1))

\* variant: the ledger row carries the cost without the minus sign
DeductionRow_unsigned(off, plan, details, req) ==
  [officer_id |-> off.id, officer_name |-> off.name, action |-> "Deduction",
   credits |-> plan.credit_cost, payment_mode |-> "Query Usage",
   remarks |-> <<details.name, " query: ", req.input_data>>]

\* part_000:189-196  the row of the ledger insert
DeductionRow(off, plan, details, req) ==
  [officer_id |-> off.id, officer_name |-> off.name, action |-> "Deduction",
   credits |-> -plan.credit_cost, payment_mode |-> "Query Usage",
   remarks |-> <<details.name, " query: ", req.input_data>>]

\* migration:218-228  constraints of credit_transactions
TransactionAccepted(tbl, row) ==
  /\ row.action \in TxActions
  /\ row.officer_id \in DOMAIN tbl

\* part_000:209-221  the final response
FinalResponse(res, plan) ==
  [status |-> IF res.success THEN 200 ELSE 400,
   body |-> Stringify([success |-> res.success,
                       data |-> JsGet(res, "data"),
                       result_summary |-> res.result_summary,
                       credits_used |-> IF res.success THEN plan.credit_cost ELSE 0,
                       error |-> JsGet(res, "error")],
                      {k \in {"data", "error"} : k \notin DOMAIN res})]

\* part_000:223-229  the outer catch
InternalError == ErrorResponse(500, <<"Internal server error">>)

\* the outcomes of a data-store write: it fails only while faults remain
WriteOutcomes == IF faultBudget > 0 THEN {TRUE, FALSE} ELSE {TRUE}
Spend(ok) == faultBudget' = IF ok THEN faultBudget ELSE faultBudget - 1

\* ------------------------------------------------------------------- Init
KeyRow(a, status) ==
  [api_key |-> Secret(a), status |-> status, usage_count |-> 0, last_used |-> NULL]

PlanRow(enabled, cost) == [enabled |-> enabled, credit_cost |-> cost]

OfficerRow(status, plan_id, credits) ==
  [name |-> "Officer", status |-> status, plan_id |-> plan_id,
   credits_remaining |-> credits, total_credits |-> MaxCredits, total_queries |-> Num(0)]

\* a store in which every gate can be passed: an active officer on plan p1
\* with any balance, the Signzy service entitled at any cost, every
\* credential active
HealthyDb ==
  /\ \E cr \in 0..MaxCredits : officers = [o \in OfficerIds |-> OfficerRow("Active", "p1", cr)]
  /\ \E c \in 0..MaxCost :
       plan_apis = [k \in PlanIds \X ApiIds |->
                      IF k[2] = "a1" THEN PlanRow(TRUE, c) ELSE PlanRow(TRUE, 1)]
  /\ api_keys = [a \in ApiIds |-> KeyRow(a, "Active")]

\* a store with one defect: the officer suspended or without a plan, the
\* entitlement row of the Signzy service absent or disabled, its credential
\* absent or inactive
DefectDb ==
  \E off \in {OfficerRow("Active", "p1", MaxCredits), OfficerRow("Suspended", "p1", MaxCredits),
              OfficerRow("Active", NULL, MaxCredits)},
     row \in {PlanRow(TRUE, 1), PlanRow(FALSE, 1), Nil},
     key \in {KeyRow("a1", "Active"), KeyRow("a1", "Inactive"), Nil} :
    /\ Cardinality({x \in {1, 2, 3} :
                      \/ x = 1 /\ off # OfficerRow("Active", "p1", MaxCredits)
                      \/ x = 2 /\ row # PlanRow(TRUE, 1)
                      \/ x = 3 /\ key # KeyRow("a1", "Active")}) = 1
    /\ officers = [o \in OfficerIds |-> off]
    /\ plan_apis = [k \in PlanIds \X ApiIds |-> IF k[2] = "a1" THEN row ELSE PlanRow(TRUE, 1)]
    /\ api_keys = [a \in ApiIds |-> IF a = "a1" THEN key ELSE KeyRow(a, "Active")]

InitDb ==
  /\ HealthyDb \/ DefectDb
  /\ queries = {}
  /\ credit_transactions = {}

InitRest ==
  /\ clientHasSql \in BOOLEAN
  /\ pc = [p \in Procs |-> "idle"]
  /\ request = [p \in Procs |-> Nil]
  /\ officer = [p \in Procs |-> Nil]
  /\ planAPI = [p \in Procs |-> Nil]
  /\ apiDetails = [p \in Procs |-> Nil]
  /\ apiResponse = [p \in Procs |-> Nil]
  /\ response = [p \in Procs |-> Nil]
  /\ calls = [p \in Procs |-> <<>>]
  /\ before = [p \in Procs |-> Nil]
  /\ disturbed = [p \in Procs |-> FALSE]
  /\ cachedOfficers = <<>>
  /\ adminPc = "idle"
  /\ adminTx = Nil
  /\ crud = Nil
  /\ session = Nil

\* migration:264-281  the seeded catalogue: every plan Active, the services
\* with their seeded types
SeedCatalog ==
  /\ rate_plans = [p \in PlanIds |-> [status |-> "Active"]]
  /\ apis = SeedApis

\* a catalogue as the console may have left it: the officer's plan Active or
\* Inactive, the Signzy service of any type
AnyCatalog ==
  /\ \E st \in StatusPlan :
       rate_plans = [p \in PlanIds |-> [status |-> IF p = "p1" THEN st ELSE "Active"]]
  /\ \E ty \in ApiTypes :
       apis = [a \in ApiIds |-> IF a = "a1" THEN [SeedApis[a] EXCEPT !.type = ty]
                                ELSE SeedApis[a]]

Init == InitDb /\ SeedCatalog /\ InitRest /\ faultBudget = 0

InitFault == InitDb /\ SeedCatalog /\ InitRest /\ faultBudget = MaxFaults

InitCatalog == InitDb /\ AnyCatalog /\ InitRest /\ faultBudget = 0

\* ------------------------------------------------------- the request body
ApiIdInputs == ApiIds \cup {Undefined}
InputDataInputs == {"9876543210", ""}
CategoryInputs == {"Phone", "", Undefined}
OfficerIdInputs == OfficerIds \cup {"ghost", Undefined}
Bodies == [api_id : ApiIdInputs, input_data : InputDataInputs,
           category : CategoryInputs, officer_id : OfficerIdInputs]

\* the requests and the console session that have begun, and whether actor a
\* may join them
Started ==
  {p \in Procs : pc[p] # "idle"}
    \cup (IF adminPc # "idle" \/ cachedOfficers # <<>> THEN {"admin"} ELSE {})
MayJoin(a) == \E cast \in Casts : Started \cup {a} \subseteq cast

\* history: a write by actor w disturbs every other request that has arrived
Disturb(w) ==
  disturbed' = [q \in Procs |-> disturbed[q] \/ (q # w /\ pc[q] # "idle")]

Called(p, op, ok) == calls' = [calls EXCEPT ![p] = Append(@, [op |-> op, ok |-> ok])]
Respond(p, r) == /\ response' = [response EXCEPT ![p] = r]
                 /\ pc' = [pc EXCEPT ![p] = "done"]
Goto(p, label) == pc' = [pc EXCEPT ![p] = label]

\* part_000:36-56  preflight, body parsing and validation.  Slot r2 takes a
\* request that arrives once the request in slot r1 has read its officer.
Receive(p) ==
  /\ pc[p] = "idle"
  /\ MayJoin(p)
  /\ p = "r2" => officer["r1"] # Nil
  /\ \/ \* an OPTIONS preflight
        /\ Respond(p, [status |-> 200, body |-> Nil])
        /\ UNCHANGED request
     \/ \* req.json() rejects: the outer catch answers
        /\ Respond(p, InternalError)
        /\ UNCHANGED request
     \/ \E body \in Bodies :
          /\ request' = [request EXCEPT ![p] = body]
          /\ IF ValidRequest(body)
             THEN Goto(p, "officer") /\ UNCHANGED response
             ELSE Respond(p, ErrorResponse(400, <<"Missing required fields">>))
  /\ before' = [before EXCEPT ![p] = [officers |-> officers, plan_apis |-> plan_apis, api_keys |-> api_keys,
                                       queries |-> queries,
                                       credit_transactions |-> credit_transactions]]
  /\ UNCHANGED <<session, catalogVars, dbVars, clientHasSql, faultBudget, officer, planAPI, apiDetails,
                 apiResponse, calls, disturbed, adminVars>>

\* part_000:58-71  gate 1
GateOfficer(p) ==
  /\ pc[p] = "officer"
  /\ LET off == OfficerSelect(officers, request[p].officer_id) IN
       /\ officer' = [officer EXCEPT ![p] = off]
       /\ Called(p, "officers.select", off # Nil)
       /\ IF off = Nil
          THEN Respond(p, ErrorResponse(403, <<"Officer not found or inactive">>))
          ELSE Goto(p, "plan") /\ UNCHANGED response
  /\ UNCHANGED <<session, catalogVars, dbVars, clientHasSql, faultBudget, request, planAPI, apiDetails,
                 apiResponse, before, disturbed, adminVars>>

\* part_000:73-97  gates 2 and 3
GateEntitlement(p) ==
  /\ pc[p] = "plan"
  /\ LET plan == PlanAPISelect(plan_apis, officer[p].plan_id, request[p].api_id) IN
       /\ planAPI' = [planAPI EXCEPT ![p] = plan]
       /\ Called(p, "plan_apis.select", plan # Nil)
       /\ IF plan = Nil
          THEN Respond(p, ErrorResponse(403, <<"API not enabled for your plan">>))
          ELSE IF InsufficientCredits(officer[p], plan)
          THEN Respond(p, ErrorResponse(402, InsufficientMessage(officer[p], plan)))
          ELSE Goto(p, "key") /\ UNCHANGED response
  /\ UNCHANGED <<session, catalogVars, dbVars, clientHasSql, faultBudget, request, officer, apiDetails,
                 apiResponse, before, disturbed, adminVars>>

\* part_000:99-118  gate 4
GateCredential(p) ==
  /\ pc[p] = "key"
  /\ LET details == ApiSelect(api_keys, request[p].api_id) IN
       /\ apiDetails' = [apiDetails EXCEPT ![p] = details]
       /\ Called(p, "apis.select", details # Nil)
       /\ IF KeyUnusable(details)
          THEN Respond(p, ErrorResponse(500, <<"API key not found or inactive">>))
          ELSE Goto(p, "adapter") /\ UNCHANGED response
  /\ UNCHANGED <<session, catalogVars, dbVars, clientHasSql, faultBudget, request, officer, planAPI,
                 apiResponse, before, disturbed, adminVars>>

\* variant: a failed provider call is attempted a second time
AfterAdapter_retryOnce(res, cs) == IF ~res.success /\ Len(cs) < 4 THEN "adapter" ELSE "log"

\* part_000:144-152  whatever the adapter answered, success or the caught
\* exception, control falls through to step 6; cs are the calls made so far
AfterAdapter(res, cs) == "log"

\* part_000:120-150  step 5: dispatch, provider call, catch
CallAdapter(p) ==
  /\ pc[p] = "adapter"
  /\ \E out \in AdapterOutcomes(apiDetails[p]) :
       LET res == AdapterResult(apiDetails[p], request[p].input_data, out) IN
       /\ apiResponse' = [apiResponse EXCEPT ![p] = res]
       /\ Called(p, Dispatch(apiDetails[p].name), res.success)
       /\ Goto(p, AfterAdapter(res, calls[p]))
  /\ UNCHANGED <<session, catalogVars, dbVars, clientHasSql, faultBudget, request, officer, planAPI,
                 apiDetails, response, before, disturbed, adminVars>>

\* variant: step 7 runs whatever the adapter answered
AfterLog_always(res) == "debit"

\* part_000:172  step 7 is entered on adapter success only
AfterLog(res) == IF res.success THEN "debit" ELSE "usage"

\* part_000:152-170  step 6
LogQuery(p) ==
  /\ pc[p] = "log"
  /\ LET row == QueryRow(officer[p], planAPI[p], apiDetails[p], request[p], apiResponse[p]) IN
     \E up \in WriteOutcomes :
       LET ok == up /\ QueryRowAccepted(officers, row) IN
       /\ queries' = IF ok THEN queries \cup {row @@ [req |-> p]} ELSE queries
       /\ Called(p, "queries.insert", ok)
       /\ Spend(up)
       /\ Disturb(p)
  /\ Goto(p, AfterLog(apiResponse[p]))
  /\ UNCHANGED <<session, catalogVars, officers, plan_apis, api_keys, credit_transactions, clientHasSql,
                 request, officer, planAPI, apiDetails, apiResponse, response, before, adminVars>>

\* part_000:172-184  step 7, the officer update
DeductCredits(p) ==
  /\ pc[p] = "debit"
  /\ \E up \in WriteOutcomes :
       /\ officers' = IF up /\ officer[p].id \in DOMAIN officers
                      THEN [officers EXCEPT ![officer[p].id] =
                              [@ EXCEPT !.credits_remaining = DebitedBalance(officer[p], planAPI[p]),
                                        !.total_queries = DebitedQueries(officer[p])]]
                      ELSE officers
       /\ Called(p, "officers.update", up)
       /\ Spend(up)
       /\ Disturb(p)
  /\ Goto(p, "tx")
  /\ UNCHANGED <<session, catalogVars, plan_apis, api_keys, queries, credit_transactions, clientHasSql,
                 request, officer, planAPI, apiDetails, apiResponse, response, before, adminVars>>

\* part_000:186-197  step 7, the ledger insert
LogTransaction(p) ==
  /\ pc[p] = "tx"
  /\ LET row == DeductionRow(officer[p], planAPI[p], apiDetails[p], request[p]) IN
     \E up \in WriteOutcomes :
       LET ok == up /\ TransactionAccepted(officers, row) IN
       /\ credit_transactions' = IF ok THEN credit_transactions \cup {row @@ [req |-> p]}
                                 ELSE credit_transactions
       /\ Called(p, "credit_transactions.insert", ok)
       /\ Spend(up)
       /\ Disturb(p)
  /\ Goto(p, "usage")
  /\ UNCHANGED <<session, catalogVars, officers, plan_apis, api_keys, queries, clientHasSql,
                 request, officer, planAPI, apiDetails, apiResponse, response, before, adminVars>>

\* part_000:203  the usage_count the update asks for
UsageIncrement(row) == [row EXCEPT !.usage_count = @ + 1, !.last_used = "now"]

\* part_000:199-229  step 8, step 9 and the outer catch.  Building the update
\* object calls supabase.sql as a template tag: on a client without that
\* member the call raises TypeError before any update is issued.
UpdateUsage(p) ==
  /\ pc[p] = "usage"
  /\ IF ~clientHasSql
     THEN /\ Respond(p, InternalError)
          /\ UNCHANGED <<api_keys, calls, faultBudget, disturbed>>
     ELSE \E up \in WriteOutcomes :
            /\ api_keys' = IF up /\ api_keys[request[p].api_id] # Nil
                           THEN [api_keys EXCEPT ![request[p].api_id] = UsageIncrement(@)]
                           ELSE api_keys
            /\ Called(p, "api_keys.update", up)
            /\ Spend(up)
            /\ Disturb(p)
            /\ Respond(p, FinalResponse(apiResponse[p], planAPI[p]))
  /\ UNCHANGED <<session, catalogVars, officers, plan_apis, queries, credit_transactions, clientHasSql,
                 request, officer, planAPI, apiDetails, apiResponse, before, adminVars>>

\* ------------------------------------------------------ the admin console
AdjustAmounts == {-1} \cup (1..MaxAdjust)
Adjustments == [officer_id : OfficerIds, officer_name : {"Officer"},
                action : TxActions, credits : AdjustAmounts]

\* variant: a Deduction is applied with the sign of the other actions
CreditChange_noNegate(td) == Abs(td.credits)

\* useSupabaseData.ts:242-244
CreditChange(td) == IF td.action = "Deduction" THEN -Abs(td.credits) ELSE Abs(td.credits)

\* variant: the adjusted balance computed from the stored row
NewCreditsRemaining_fromStored(off, td) ==
  Max(0, officers[td.officer_id].credits_remaining + CreditChange(td))

\* variant: the adjusted balance without the Math.max floor
NewCreditsRemaining_unclamped(off, td) == off.credits_remaining + CreditChange(td)

\* useSupabaseData.ts:246
NewCreditsRemaining(off, td) == Max(0, off.credits_remaining + CreditChange(td))

\* variant: every action adds to the lifetime total
NewTotalCredits_everyAction(off, td) == off.total_credits + Abs(td.credits)

\* useSupabaseData.ts:247-249
NewTotalCredits(off, td) ==
  IF td.action \in {"Renewal", "Top-up"} THEN off.total_credits + Abs(td.credits)
  ELSE off.total_credits

\* useSupabaseData.ts:19-50, 518-521  loadOfficers as run by loadData on mount;
\* until it completes the cached list is empty
LoadOfficers ==
  /\ adminPc = "idle"
  /\ cachedOfficers = <<>>
  /\ MayJoin("admin")
  /\ cachedOfficers' = officers
  /\ UNCHANGED <<session, catalogVars, dbVars, clientHasSql, faultBudget, reqVars, adminPc, adminTx, crud>>

\* useSupabaseData.ts:228-241  addTransaction: the ledger insert and the lookup
\* of the officer in the cached list.  The console makes one adjustment in a run.
AddTransaction ==
  /\ adminPc = "idle"
  /\ MayJoin("admin")
  /\ \E td \in Adjustments, up \in WriteOutcomes :
       LET ok == up /\ TransactionAccepted(officers, td) IN
       /\ credit_transactions' = IF ok THEN credit_transactions \cup {td @@ [req |-> "admin"]}
                                 ELSE credit_transactions
       /\ Spend(up)
       /\ IF ok /\ td.officer_id \in DOMAIN cachedOfficers
          THEN adminPc' = "update" /\ adminTx' = td
          ELSE adminPc' = "done" /\ adminTx' = Nil
  /\ Disturb("admin")
  /\ UNCHANGED <<session, catalogVars, officers, plan_apis, api_keys, queries, clientHasSql,
                 pc, request, officer, planAPI, apiDetails, apiResponse, response,
                 calls, before, cachedOfficers, crud>>

\* useSupabaseData.ts:242-254 and 182-208  the balance write through
\* updateOfficer, and the reload of the cached list that ends it
AdjustOfficer ==
  /\ adminPc = "update"
  /\ LET off == cachedOfficers[adminTx.officer_id] IN
     \E up \in WriteOutcomes :
       /\ officers' = IF up /\ adminTx.officer_id \in DOMAIN officers
                      THEN [officers EXCEPT ![adminTx.officer_id] =
                              [@ EXCEPT !.credits_remaining = NewCreditsRemaining(off, adminTx),
                                        !.total_credits = NewTotalCredits(off, adminTx)]]
                      ELSE officers
       /\ Spend(up)
       /\ cachedOfficers' = IF up THEN officers' ELSE cachedOfficers
  /\ adminPc' = "done"
  /\ adminTx' = Nil
  /\ Disturb("admin")
  /\ UNCHANGED <<session, catalogVars, plan_apis, api_keys, queries, credit_transactions, clientHasSql,
                 pc, request, officer, planAPI, apiDetails, apiResponse, response,
                 calls, before, crud>>

\* --------------------------------------------- the admin console: CRUD
\* what the console remembers of a finished command
Finished(op, id, given, settings, ok) ==
  [op |-> op, id |-> id, given |-> given, settings |-> settings, ok |-> ok,
   plan_apis |-> plan_apis, api_keys |-> api_keys, officers |-> officers]

\* migration:196, 220  officer_id uuid REFERENCES officers(id) ON DELETE CASCADE
CascadeOfficer(rows, id) == {r \in rows : r.officer_id # id}

\* DELETE FROM officers WHERE id = ...
RemoveOfficer(tbl, id) == [o \in (DOMAIN tbl) \ {id} |-> tbl[o]]

\* useSupabaseData.ts:210-225  deleteOfficer
DeleteOfficer ==
  /\ adminPc = "idle"
  /\ MayJoin("admin")
  /\ \E id \in OfficerIds, up \in WriteOutcomes :
       /\ officers' = IF up THEN RemoveOfficer(officers, id) ELSE officers
       /\ queries' = IF up THEN CascadeOfficer(queries, id) ELSE queries
       /\ credit_transactions' = IF up THEN CascadeOfficer(credit_transactions, id)
                                 ELSE credit_transactions
       /\ Spend(up)
       /\ cachedOfficers' = IF up THEN officers' ELSE cachedOfficers
       /\ crud' = Finished("deleteOfficer", id, FALSE, <<>>, up)
  /\ adminPc' = "done"
  /\ Disturb("admin")
  /\ UNCHANGED <<session, catalogVars, plan_apis, api_keys, clientHasSql,
                 pc, request, officer, planAPI, apiDetails, apiResponse, response,
                 calls, before, adminTx>>

\* variant: deleting a plan leaves the officers that are on it as they are
SetNullPlan_keeps(tbl, id) == tbl

\* migration:148  officers.plan_id uuid REFERENCES rate_plans(id) ON DELETE SET NULL
SetNullPlan(tbl, id) ==
  [o \in DOMAIN tbl |-> IF tbl[o].plan_id = id THEN [tbl[o] EXCEPT !.plan_id = NULL]
                        ELSE tbl[o]]

\* migration:97  plan_apis.plan_id uuid REFERENCES rate_plans(id) ON DELETE CASCADE
CascadePlan(tbl, id) == [k \in DOMAIN tbl |-> IF k[1] = id THEN Nil ELSE tbl[k]]

\* migration:98  plan_apis.api_id uuid REFERENCES apis(id) ON DELETE CASCADE
CascadeApi(tbl, id) == [k \in DOMAIN tbl |-> IF k[2] = id THEN Nil ELSE tbl[k]]

\* useSupabaseData.ts:447-462  deleteRatePlan, on a plan the console lists; the
\* console may delete several rows one after another
DeleteRatePlan ==
  /\ adminPc \in {"idle", "done"}
  /\ MayJoin("admin")
  /\ \E id \in PlanIds, up \in WriteOutcomes :
       /\ rate_plans[id] # Nil
       /\ rate_plans' = IF up THEN [rate_plans EXCEPT ![id] = Nil] ELSE rate_plans
       /\ plan_apis' = IF up THEN CascadePlan(plan_apis, id) ELSE plan_apis
       /\ officers' = IF up THEN SetNullPlan(officers, id) ELSE officers
       /\ Spend(up)
       /\ crud' = Finished("deleteRatePlan", id, FALSE, <<>>, up)
  /\ adminPc' = "done"
  /\ Disturb("admin")
  /\ UNCHANGED <<session, apis, api_keys, queries, credit_transactions, clientHasSql,
                 pc, request, officer, planAPI, apiDetails, apiResponse, response,
                 calls, before, cachedOfficers, adminTx>>

\* useSupabaseData.ts:501-516  deleteAPI, on a service the console lists; migration:118  api_keys.api_id uuid
\* REFERENCES apis(id) ON DELETE CASCADE
DeleteAPI ==
  /\ adminPc \in {"idle", "done"}
  /\ MayJoin("admin")
  /\ \E id \in ApiIds, up \in WriteOutcomes :
       /\ apis[id] # Nil
       /\ apis' = IF up THEN [apis EXCEPT ![id] = Nil] ELSE apis
       /\ api_keys' = IF up THEN [api_keys EXCEPT ![id] = Nil] ELSE api_keys
       /\ plan_apis' = IF up THEN CascadeApi(plan_apis, id) ELSE plan_apis
       /\ Spend(up)
       /\ crud' = Finished("deleteAPI", id, FALSE, <<>>, up)
  /\ adminPc' = "done"
  /\ Disturb("admin")
  /\ UNCHANGED <<session, rate_plans, officers, queries, credit_transactions, clientHasSql,
                 pc, request, officer, planAPI, apiDetails, apiResponse, response,
                 calls, before, cachedOfficers, adminTx>>

\* useSupabaseData.ts:266  apiKeyData as the console's form supplies it
NewKeys == [api_id : ApiIds, api_key : {"sk-new"}, status : StatusKey]

\* migration:116-128  api_keys: UNIQUE(api_id), api_id REFERENCES apis(id)
KeyInsertAccepted(tbl, data) == tbl[data.api_id] = Nil /\ apis[data.api_id] # Nil

\* useSupabaseData.ts:266-286  addAPIKey
AddAPIKey ==
  /\ adminPc = "idle"
  /\ MayJoin("admin")
  /\ \E data \in NewKeys, up \in WriteOutcomes :
       LET ok == up /\ KeyInsertAccepted(api_keys, data) IN
       /\ api_keys' = IF ok
                      THEN [api_keys EXCEPT ![data.api_id] =
                              [api_key |-> data.api_key, status |-> data.status,
                               usage_count |-> 0, last_used |-> NULL]]
                      ELSE api_keys
       /\ Spend(up)
       /\ crud' = Finished("addAPIKey", data.api_id, FALSE, <<>>, ok)
  /\ adminPc' = "done"
  /\ Disturb("admin")
  /\ UNCHANGED <<session, catalogVars, officers, plan_apis, queries, credit_transactions, clientHasSql,
                 pc, request, officer, planAPI, apiDetails, apiResponse, response,
                 calls, before, cachedOfficers, adminTx>>

\* useSupabaseData.ts:403  the apiSettings argument: absent, empty, one
\* service, both services, or one service named twice
Setting(a, cost) == [api_id |-> a, enabled |-> TRUE, credit_cost |-> cost]
SettingLists ==
  {<<>>, <<Setting("a1", 0)>>, <<Setting("a2", 0)>>,
   <<Setting("a1", 0), Setting("a2", 0)>>, <<Setting("a1", 0), Setting("a1", 1)>>}
PlanUpdates == [status : StatusPlan]
PlanEdits ==
  [id : PlanIds, updates : PlanUpdates, hasSettings : {TRUE}, apiSettings : SettingLists]
    \cup [id : PlanIds, updates : PlanUpdates, hasSettings : {FALSE}, apiSettings : {<<>>}]

\* variant: the plan's own fields are not written
UpdatedPlans_none(tbl, id, updates) == tbl

\* useSupabaseData.ts:405-408  rate_plans.update(updates).eq('id', id)
UpdatedPlans(tbl, id, updates) ==
  IF tbl[id] # Nil THEN [tbl EXCEPT ![id] = [status |-> updates.status]] ELSE tbl

\* variant: the delete leaves the plan's rows in place
DeletePlanAPIs_keeps(tbl, id) == tbl

\* DELETE FROM plan_apis WHERE plan_id = id
DeletePlanAPIs(tbl, id) == [k \in DOMAIN tbl |-> IF k[1] = id THEN Nil ELSE tbl[k]]

\* migration:95-108  plan_apis: UNIQUE(plan_id, api_id) and the two foreign
\* keys, checked for the statement as a whole
PlanAPIsAccepted(tbl, id, settings) ==
  /\ \A i, j \in DOMAIN settings : i # j => settings[i].api_id # settings[j].api_id
  /\ \A i \in DOMAIN settings : tbl[<<id, settings[i].api_id>>] = Nil
  /\ rate_plans[id] # Nil
  /\ \A i \in DOMAIN settings : apis[settings[i].api_id] # Nil

\* useSupabaseData.ts:421-428  planAPIData and its insert
InsertedPlanAPIs(tbl, id, settings) ==
  [k \in DOMAIN tbl |->
     IF k[1] = id /\ \E i \in DOMAIN settings : settings[i].api_id = k[2]
     THEN LET i == CHOOSE i \in DOMAIN settings : settings[i].api_id = k[2]
          IN PlanRow(settings[i].enabled, settings[i].credit_cost)
     ELSE tbl[k]]

\* useSupabaseData.ts:403-419  updateRatePlan: the rate_plans update, whose
\* error is thrown, and the plan_apis delete, whose result is not looked at
UpdateRatePlan ==
  /\ adminPc = "idle"
  /\ MayJoin("admin")
  /\ \E edit \in PlanEdits, planUp \in WriteOutcomes :
       LET Done_(ok, del) ==
             /\ adminPc' = "done" /\ adminTx' = Nil
             /\ crud' = Finished("updateRatePlan", edit.id, edit.hasSettings,
                                 edit.apiSettings, ok)
                          @@ [updates |-> edit.updates, deleted |-> del]
       IN
       /\ rate_plans' = IF planUp THEN UpdatedPlans(rate_plans, edit.id, edit.updates)
                        ELSE rate_plans
       /\ \/ /\ ~planUp
             /\ Spend(planUp)
             /\ Done_(FALSE, FALSE)
             /\ UNCHANGED plan_apis
          \/ /\ planUp /\ ~edit.hasSettings
             /\ Done_(TRUE, FALSE)
             /\ UNCHANGED <<plan_apis, faultBudget>>
          \/ /\ planUp /\ edit.hasSettings
             /\ \E del \in WriteOutcomes :
                  /\ plan_apis' = IF del THEN DeletePlanAPIs(plan_apis, edit.id)
                                  ELSE plan_apis
                  /\ Spend(del)
                  /\ IF edit.apiSettings # <<>>
                     THEN /\ adminPc' = "plan_insert"
                          /\ adminTx' = edit @@ [plan_apis |-> plan_apis,
                                                  api_keys |-> api_keys,
                                                  officers |-> officers, deleted |-> del]
                          /\ UNCHANGED crud
                     ELSE Done_(TRUE, del)
  /\ Disturb("admin")
  /\ UNCHANGED <<session, apis, officers, api_keys, queries, credit_transactions, clientHasSql,
                 pc, request, officer, planAPI, apiDetails, apiResponse, response,
                 calls, before, cachedOfficers>>

\* useSupabaseData.ts:420-445  updateRatePlan: the plan_apis insert, whose
\* error is thrown, and the reload
InsertPlanAPIs ==
  /\ adminPc = "plan_insert"
  /\ \E up \in WriteOutcomes :
       LET ok == up /\ PlanAPIsAccepted(plan_apis, adminTx.id, adminTx.apiSettings) IN
       /\ plan_apis' = IF ok THEN InsertedPlanAPIs(plan_apis, adminTx.id, adminTx.apiSettings)
                       ELSE plan_apis
       /\ Spend(up)
       /\ crud' = [op |-> "updateRatePlan", id |-> adminTx.id, given |-> TRUE,
                   settings |-> adminTx.apiSettings, ok |-> ok,
                   plan_apis |-> adminTx.plan_apis, api_keys |-> adminTx.api_keys,
                   officers |-> adminTx.officers,
                   updates |-> adminTx.updates, deleted |-> adminTx.deleted]
  /\ adminPc' = "done"
  /\ adminTx' = Nil
  /\ Disturb("admin")
  /\ UNCHANGED <<session, catalogVars, officers, api_keys, queries, credit_transactions, clientHasSql,
                 pc, request, officer, planAPI, apiDetails, apiResponse, response,
                 calls, before, cachedOfficers>>

\* ------------------------------------------------------ row level security
\* Every table has row level security enabled (migration:50-261).  The broker
\* connects with the service role key, which bypasses it (part_000:44-46);
\* every other client is checked against the policies below.
AdminUsers == {"adm"}                        \* ids of the admin_users rows
Uids == OfficerIds \cup {"u2"} \cup AdminUsers   \* auth.uid() of a signed-in client
Principals ==
  {[role |-> "anon", uid |-> NULL]} \cup {[role |-> "authenticated", uid |-> u] : u \in Uids}
Commands == {"SELECT", "INSERT", "UPDATE", "DELETE"}
PolicyTables == {"plan_apis", "api_keys", "officers", "queries", "credit_transactions"}
Owners == OfficerIds \cup {"u2"}             \* officers.id / queries.officer_id of a row

\* migration:306-358  one record per CREATE POLICY: the command, the role it
\* is granted TO, its USING and its WITH CHECK expression (a policy without
\* WITH CHECK checks new rows with USING)
Pol(table, cmd, to, using, check) ==
  [table |-> table, cmd |-> cmd, to |-> to, using |-> using, check |-> check]
Policies ==
  { Pol("plan_apis", "ALL", "authenticated", "admin", "admin"),
    Pol("api_keys", "ALL", "authenticated", "admin", "admin"),
    Pol("officers", "SELECT", "authenticated", "admin", "admin"),
    Pol("officers", "INSERT", "authenticated", "admin", "admin"),
    Pol("officers", "UPDATE", "authenticated", "admin", "admin"),
    Pol("officers", "DELETE", "authenticated", "admin", "admin"),
    Pol("officers", "SELECT", "authenticated", "own", "own"),
    Pol("officers", "UPDATE", "authenticated", "own", "own"),
    Pol("queries", "SELECT", "public", "own", "own"),
    Pol("queries", "INSERT", "public", "own", "own"),
    Pol("queries", "SELECT", "public", "admin", "admin"),
    Pol("credit_transactions", "ALL", "public", "admin", "admin") }

\* variant: the ownership expression holds for every signed-in client
Qual_anyOwner(kind, uid, owner) ==
  CASE kind = "admin" -> uid \in AdminUsers
    [] kind = "own" -> uid # NULL

\* the two policy expressions: EXISTS (SELECT 1 FROM admin_users WHERE id =
\* auth.uid()) and auth.uid()::text = <owner column>::text (not true for a
\* NULL auth.uid())
Qual(kind, uid, owner) ==
  CASE kind = "admin" -> uid \in AdminUsers
    [] kind = "own" -> uid # NULL /\ uid = owner

\* the policies of a table that apply to a command issued under a role
PoliciesFor(table, cmd, role) ==
  {pol \in Policies : /\ pol.table = table
                      /\ pol.cmd \in {cmd, "ALL"}
                      /\ pol.to \in {"public", role}}

\* permissive policies are combined with OR: an existing row must pass some
\* USING, a new row some WITH CHECK
Permitted(who, table, cmd, old, new) ==
  LET pols == PoliciesFor(table, cmd, who.role)
      usingOk == \E pol \in pols : Qual(pol.using, who.uid, old)
      checkOk == \E pol \in pols : Qual(pol.check, who.uid, new)
  IN CASE cmd \in {"SELECT", "DELETE"} -> usingOk
       [] cmd = "INSERT" -> checkOk
       [] cmd = "UPDATE" -> usingOk /\ checkOk

\* migration:136-158  the officers columns an UPDATE may set, with the values
\* the column's type, CHECK and foreign key admit; no policy and no GRANT of
\* the migration names a column
OfficerColumns == {"name", "status", "plan_id", "credits_remaining", "total_credits"}
ColumnValues(col) ==
  CASE col = "name" -> {"Officer"}
    [] col = "status" -> StatusOfficer
    [] col = "plan_id" -> {id \in PlanIds : rate_plans[id] # Nil} \cup {NULL}
    [] col = "credits_remaining" -> 0..MaxCredits
    [] col = "total_credits" -> 0..MaxCredits
SetColumn(row, col, val) ==
  CASE col = "name" -> [row EXCEPT !.name = val]
    [] col = "status" -> [row EXCEPT !.status = val]
    [] col = "plan_id" -> [row EXCEPT !.plan_id = val]
    [] col = "credits_remaining" -> [row EXCEPT !.credits_remaining = val]
    [] col = "total_credits" -> [row EXCEPT !.total_credits = val]

\* a client other than the broker issues one command on one row: old is the
\* owner of the row addressed, new the owner of the row written, col the
\* column an UPDATE of officers sets.  A granted UPDATE that keeps the row's
\* id is applied to the officers table; of every other command only the
\* decision is recorded.
ClientAccess ==
  /\ \E who \in Principals, table \in PolicyTables, cmd \in Commands,
        old \in Owners, new \in Owners, col \in OfficerColumns :
       /\ cmd \in {"SELECT", "DELETE", "INSERT"} => new = old
       /\ (table # "officers" \/ cmd # "UPDATE") => col = "name"
       /\ session' = [who |-> who, table |-> table, cmd |-> cmd, old |-> old, new |-> new,
                      col |-> col, granted |-> Permitted(who, table, cmd, old, new)]
       /\ IF /\ Permitted(who, table, cmd, old, new)
             /\ table = "officers" /\ cmd = "UPDATE"
             /\ old = new /\ old \in DOMAIN officers
          THEN \E val \in ColumnValues(col) :
                 officers' = [officers EXCEPT ![old] = SetColumn(@, col, val)]
          ELSE UNCHANGED officers
  /\ UNCHANGED <<plan_apis, api_keys, queries, credit_transactions, catalogVars,
                 clientHasSql, faultBudget, reqVars, adminVars>>

\* ------------------------------------------------------------------- Next
Next ==
  \/ \E p \in Procs : Receive(p)
  \/ \E p \in Procs : GateOfficer(p)
  \/ \E p \in Procs : GateEntitlement(p)
  \/ \E p \in Procs : GateCredential(p)
  \/ \E p \in Procs : CallAdapter(p)
  \/ \E p \in Procs : LogQuery(p)
  \/ \E p \in Procs : DeductCredits(p)
  \/ \E p \in Procs : LogTransaction(p)
  \/ \E p \in Procs : UpdateUsage(p)
  \/ LoadOfficers
  \/ AddTransaction
  \/ AdjustOfficer

Spec == Init /\ [][Next]_vars

SpecFault == InitFault /\ [][Next]_vars

\* the seeded store: one active officer on plan p1 with the full balance,
\* every service entitled and every credential Active
InitPolicy ==
  /\ Init
  /\ clientHasSql
  /\ officers = [o \in OfficerIds |-> OfficerRow("Active", "p1", MaxCredits)]
  /\ plan_apis = [k \in PlanIds \X ApiIds |-> PlanRow(TRUE, 1)]
  /\ api_keys = [a \in ApiIds |-> KeyRow(a, "Active")]

SpecPolicy == InitPolicy /\ [][ClientAccess]_vars

\* one step of the handler serving request p: every await of part_000:58-221
\* is a data-store call or the provider call
HandlerStep(p) ==
  \/ GateOfficer(p) \/ GateEntitlement(p) \/ GateCredential(p) \/ CallAdapter(p)
  \/ LogQuery(p) \/ DeductCredits(p) \/ LogTransaction(p) \/ UpdateUsage(p)

\* every data-store call and every provider call eventually returns, so a
\* handler that can take its next step eventually takes it; nothing obliges a
\* request to arrive or the console to act
SpecLive == Init /\ [][Next]_vars /\ \A p \in Procs : WF_vars(HandlerStep(p))

\* the console beside one request: the credit adjustment and the commands
\* that create, replace or delete rows
NextAdmin ==
  \/ Receive("r1")
  \/ GateOfficer("r1")
  \/ GateEntitlement("r1")
  \/ GateCredential("r1")
  \/ CallAdapter("r1")
  \/ LogQuery("r1")
  \/ DeductCredits("r1")
  \/ LogTransaction("r1")
  \/ UpdateUsage("r1")
  \/ LoadOfficers
  \/ AddTransaction
  \/ AdjustOfficer
  \/ DeleteOfficer
  \/ AddAPIKey
  \/ UpdateRatePlan
  \/ InsertPlanAPIs

SpecAdmin == Init /\ [][NextAdmin]_vars

\* one request beside a console that deletes officers, plans and services,
\* started from any catalogue
NextCatalog ==
  \/ Receive("r1")
  \/ GateOfficer("r1")
  \/ GateEntitlement("r1")
  \/ GateCredential("r1")
  \/ CallAdapter("r1")
  \/ LogQuery("r1")
  \/ DeductCredits("r1")
  \/ LogTransaction("r1")
  \/ UpdateUsage("r1")
  \/ DeleteOfficer
  \/ DeleteRatePlan
  \/ DeleteAPI

SpecCatalog == InitCatalog /\ [][NextCatalog]_vars

SpecAdminFault == InitFault /\ [][NextAdmin]_vars

\* ================================================================== claims
Done(p) == pc[p] = "done"
Status(p) == response[p].status
Body(p) == response[p].body
CallOps(p) == {calls[p][i].op : i \in DOMAIN calls[p]}
AdapterOps == {"callSignzyPhonePrefill", "callRCVerification", "callCreditHistory",
               "callCellIDLocation"}
WriteOps == {"queries.insert", "officers.update", "credit_transactions.insert",
             "api_keys.update"}
QueriesOf(p) == {r \in queries : r.req = p}
TransactionsOf(p) == {r \in credit_transactions : r.req = p}

\* the request carries all four fields of the input contract
WellFormed(req) ==
  ~(Falsy(req.api_id) \/ Falsy(req.input_data) \/ Falsy(req.category) \/ Falsy(req.officer_id))

\* the request was answered by the adapter: it passed gates 1-4 and step 5 ran
AdapterAnswered(p) == apiResponse[p] # Nil
AdapterSucceeded(p) == AdapterAnswered(p) /\ apiResponse[p].success
AdapterThrew(p) ==
  \E i \in DOMAIN calls[p] : calls[p][i].op \in AdapterOps /\ ~calls[p][i].ok

\* the request made no call that changes anything: no adapter, no write, no row
NoSideEffect(p) ==
  /\ CallOps(p) \cap (AdapterOps \cup WriteOps \cup {"default"}) = {}
  /\ QueriesOf(p) = {}
  /\ TransactionsOf(p) = {}
  /\ ~disturbed[p] =>
       /\ officers = before[p].officers
       /\ plan_apis = before[p].plan_apis
       /\ api_keys = before[p].api_keys
       /\ queries = before[p].queries
       /\ credit_transactions = before[p].credit_transactions

\* C1: a well-formed lookup that ran undisturbed, passed every gate and whose
\* adapter succeeded leaves the officer's credits_remaining at its value on
\* arrival minus the entitlement's credit_cost, has created exactly one
\* queries row (status Success) and exactly one credit_transactions row
\* (action Deduction, credits = -credit_cost).
C1_SuccessfulLookupEffects ==
  \A p \in Procs :
    (Done(p) /\ ~disturbed[p] /\ AdapterSucceeded(p) /\ WellFormed(request[p])) =>
      LET o == request[p].officer_id
          cost == before[p].plan_apis[<<before[p].officers[o].plan_id, request[p].api_id>>].credit_cost
      IN /\ officers[o].credits_remaining = before[p].officers[o].credits_remaining - cost
         /\ Cardinality(QueriesOf(p)) = 1
         /\ \A r \in QueriesOf(p) : r.status = "Success"
         /\ Cardinality(TransactionsOf(p)) = 1
         /\ \A t \in TransactionsOf(p) : t.action = "Deduction" /\ t.credits = -cost

\* a successful undisturbed lookup of positive cost has completed
C1_Witness ==
  \E p \in Procs :
    /\ Done(p) /\ ~disturbed[p] /\ AdapterSucceeded(p) /\ WellFormed(request[p])
    /\ planAPI[p].credit_cost = 2
    /\ officers[request[p].officer_id].credits_remaining = 0
    /\ Cardinality(TransactionsOf(p)) = 1

\* C2 (as claimed): a well-formed request that passed gates 1-4 and whose
\* adapter threw is answered 400 with credits_used = 0, leaves the officer's
\* credits_remaining and total_queries as they were, has created exactly one
\* queries row (status Failed) and no credit_transactions row.
C2_AdapterFailureAnswered ==
  \A p \in Procs :
    (Done(p) /\ ~disturbed[p] /\ AdapterThrew(p) /\ WellFormed(request[p])) =>
      /\ Status(p) = 400
      /\ "credits_used" \in DOMAIN Body(p) /\ Body(p).credits_used = 0
      /\ officers = before[p].officers
      /\ Cardinality(QueriesOf(p)) = 1
      /\ \A r \in QueriesOf(p) : r.status = "Failed"
      /\ TransactionsOf(p) = {}

\* C3: a request that read a balance below the credit_cost of its enabled
\* entitlement is answered 402 with a message giving both the required and
\* the available amount, and has called no adapter and written nothing.
C3_InsufficientCredits ==
  \A p \in Procs :
    (officer[p] # Nil /\ planAPI[p] # Nil
       /\ before[p].officers[officer[p].id].credits_remaining < planAPI[p].credit_cost
       /\ ~disturbed[p]) =>
      /\ Done(p)
      /\ Status(p) = 402
      /\ Body(p).error[2] = ToString(planAPI[p].credit_cost)
      /\ Body(p).error[4] = ToString(before[p].officers[officer[p].id].credits_remaining)
      /\ NoSideEffect(p)

\* a request has been refused for a balance of 1 against a cost of 2
C3_Witness ==
  \E p \in Procs :
    /\ Done(p) /\ officer[p] # Nil /\ planAPI[p] # Nil
    /\ officer[p].credits_remaining = 1 /\ planAPI[p].credit_cost = 2
    /\ Status(p) = 402

\* C4: in every reachable state every officer's credits_remaining is >= 0,
\* whatever the interleaving of lookups and admin credit adjustments.
C4_BalanceNeverNegative ==
  \A o \in DOMAIN officers : officers[o].credits_remaining >= 0

\* a lookup has debited and an admin Deduction has been applied, the balance
\* standing at 0
C4_Witness ==
  /\ \E p \in Procs : "officers.update" \in CallOps(p)
  /\ \E t \in credit_transactions : t.req = "admin" /\ t.action = "Deduction"
  /\ adminPc = "done"
  /\ \E o \in DOMAIN officers : officers[o].credits_remaining = 0

\* the texts a response body carries
Range(seq) == {seq[i] : i \in DOMAIN seq}
BodyTexts(body) ==
  (IF "error" \in DOMAIN body THEN Range(body.error) ELSE {})
    \cup (IF "result_summary" \in DOMAIN body THEN Range(body.result_summary) ELSE {})
    \cup (IF "data" \in DOMAIN body THEN body.data.fields ELSE {})

\* C5: no response body, on any path (gate refusal, adapter success, adapter
\* failure, internal error), carries the api_key text of any credential.
C5_SecretNeverInResponse ==
  \A p \in Procs :
    (response[p] # Nil /\ Body(p) # Nil) =>
      BodyTexts(Body(p)) \cap {Secret(a) : a \in ApiIds} = {}

\* one request has been answered with the adapter's payload, another with the
\* adapter's failure, both after the credential was read
C5_Witness ==
  /\ Done("r1") /\ Status("r1") = 200 /\ "data" \in DOMAIN Body("r1")
  /\ apiDetails["r1"].api_keys.api_key = Secret("a1")
  /\ Done("r2") /\ Status("r2") = 400 /\ "success" \in DOMAIN Body("r2")
  /\ apiDetails["r2"].api_keys.api_key = Secret("a1")

\* C6 (as claimed): a request in which any of the four fields is missing or
\* empty is answered 400 and has had no side effect: no adapter call, no
\* queries row, no debit, no credit_transactions row, no usage update.
C6_MissingFieldRejected ==
  \A p \in Procs :
    (Done(p) /\ request[p] # Nil /\ ~WellFormed(request[p])) =>
      /\ Status(p) = 400
      /\ NoSideEffect(p)

OfficerNotActive(tbl, id) == id \notin DOMAIN tbl \/ tbl[id].status # "Active"

\* C7: a request that passed validation and whose officer_id names no officer
\* or an officer that is not Active is answered 403 at gate 1, has written no
\* queries row and leaves officers, credit_transactions and api_keys as they were.
C7_UnknownOrInactiveOfficer ==
  \A p \in Procs :
    (request[p] # Nil /\ ValidRequest(request[p]) /\ pc[p] # "officer"
       /\ OfficerNotActive(before[p].officers, request[p].officer_id)) =>
      /\ Done(p)
      /\ Status(p) = 403
      /\ CallOps(p) = {"officers.select"}
      /\ NoSideEffect(p)

\* a request of a suspended officer has been refused
C7_Witness ==
  \E p \in Procs :
    /\ Done(p) /\ request[p] # Nil /\ ValidRequest(request[p])
    /\ request[p].officer_id \in DOMAIN officers
    /\ officers[request[p].officer_id].status = "Suspended"
    /\ Status(p) = 403

NoEnabledRow(tbl, plan_id, api_id) ==
  \/ <<plan_id, api_id>> \notin DOMAIN tbl
  \/ tbl[<<plan_id, api_id>>] = Nil
  \/ ~tbl[<<plan_id, api_id>>].enabled

\* C8: a request of an active officer whose plan has no enabled plan_apis row
\* for the requested service (row absent, row disabled, plan_id null) is
\* answered 403 at gate 2 and has written nothing.
C8_NotEntitled ==
  \A p \in Procs :
    (request[p] # Nil /\ ValidRequest(request[p]) /\ pc[p] \notin {"officer", "plan"}
       /\ ~OfficerNotActive(before[p].officers, request[p].officer_id)
       /\ NoEnabledRow(before[p].plan_apis,
                       before[p].officers[request[p].officer_id].plan_id,
                       request[p].api_id)) =>
      /\ Done(p)
      /\ Status(p) = 403
      /\ Body(p).error = <<"API not enabled for your plan">>
      /\ NoSideEffect(p)

\* a request for a service whose entitlement row is disabled has been refused
C8_Witness ==
  \E p \in Procs :
    /\ Done(p) /\ officer[p] # Nil
    /\ plan_apis[<<officer[p].plan_id, request[p].api_id>>] = PlanRow(FALSE, 1)
    /\ Status(p) = 403

KeyAbsentOrInactive(tbl, api_id) == tbl[api_id] = Nil \/ tbl[api_id].status # "Active"

\* C9: a request that passed gates 1-3 for a service without a credential, or
\* with a credential that is not Active, is answered 500 at gate 4 without
\* an adapter call and without a queries row, a debit or a ledger row.
C9_CredentialUnavailable ==
  \A p \in Procs :
    (apiDetails[p] # Nil /\ KeyAbsentOrInactive(before[p].api_keys, request[p].api_id)) =>
      /\ Done(p)
      /\ Status(p) = 500
      /\ Body(p).error = <<"API key not found or inactive">>
      /\ NoSideEffect(p)

\* a request for a service whose credential is Inactive has been refused
C9_Witness ==
  \E p \in Procs :
    /\ Done(p) /\ apiDetails[p] # Nil /\ apiDetails[p].api_keys # Nil
    /\ apiDetails[p].api_keys.status = "Inactive"
    /\ Status(p) = 500

\* C10 (as claimed): a request carrying all four fields for a service whose
\* name matches no registered adapter is aborted at once with a structured error: no queries row, no
\* debit, no credit_transactions row and no usage-counter update.
C10_UnsupportedProviderAborts ==
  \A p \in Procs :
    (Done(p) /\ request[p] # Nil /\ WellFormed(request[p])
       /\ apiDetails[p] # Nil /\ ~KeyUnusable(apiDetails[p])
       /\ Dispatch(apiDetails[p].name) = "default") =>
      /\ CallOps(p) \cap WriteOps = {}
      /\ QueriesOf(p) = {}
      /\ TransactionsOf(p) = {}

\* the credit_cost of the entitlement the request of slot p asked for, as
\* stored when it arrived
CostOnArrival(p) ==
  before[p].plan_apis[<<before[p].officers[request[p].officer_id].plan_id,
                        request[p].api_id>>].credit_cost

\* C11 (as claimed): a request that passed every gate is answered 200 with
\* success = true and credits_used = credit_cost when its adapter succeeded,
\* and 400 with success = false and credits_used = 0 when its adapter failed.
C11_OutcomeAnswered ==
  \A p \in Procs :
    (Done(p) /\ AdapterAnswered(p) /\ WellFormed(request[p])) =>
      /\ Status(p) = IF apiResponse[p].success THEN 200 ELSE 400
      /\ {"success", "credits_used"} \subseteq DOMAIN Body(p)
      /\ Body(p).success = apiResponse[p].success
      /\ Body(p).credits_used = IF apiResponse[p].success THEN CostOnArrival(p) ELSE 0

\* C12 (as claimed): after a successful lookup the stored total_queries of the
\* officer is its value on arrival plus one; after a failed or rejected
\* lookup it is its value on arrival.
C12_TotalQueriesCounted ==
  \A p \in Procs :
    (Done(p) /\ ~disturbed[p] /\ request[p] # Nil /\ WellFormed(request[p])
       /\ request[p].officer_id \in DOMAIN officers) =>
      LET o == request[p].officer_id IN
      officers[o].total_queries =
        IF AdapterSucceeded(p) THEN JsAdd(before[p].officers[o].total_queries, 1)
        ELSE before[p].officers[o].total_queries

\* the request of slot r2 is the request of slot r1 issued again after the
\* first had written its debit and its ledger row, and the adapter succeeded
\* for both
IssuedTwice ==
  /\ Done("r1") /\ Done("r2")
  /\ request["r1"] # Nil /\ request["r2"] = request["r1"] /\ WellFormed(request["r1"])
  /\ AdapterSucceeded("r1") /\ AdapterSucceeded("r2")
  /\ TransactionsOf("r1") # {}
  /\ TransactionsOf("r1") \subseteq before["r2"].credit_transactions

\* C13: two identical requests issued one after the other, both succeeding,
\* debit twice: the second read the balance the first left, the balance ends
\* 2 * credit_cost below where it started, and each request has its own
\* queries row and its own Deduction row of -credit_cost.
C13_NotIdempotent ==
  IssuedTwice =>
    LET o == request["r1"].officer_id
        cost == CostOnArrival("r1")
        c == before["r1"].officers[o].credits_remaining
    IN /\ officer["r2"].credits_remaining = c - cost
       /\ officers[o].credits_remaining = c - 2 * cost
       /\ \A p \in Procs :
            /\ Cardinality(QueriesOf(p)) = 1
            /\ Cardinality(TransactionsOf(p)) = 1
            /\ \A t \in TransactionsOf(p) : t.action = "Deduction" /\ t.credits = -cost

\* a request of cost 1 was issued twice against a balance of 2 and left 0
C13_Witness ==
  /\ IssuedTwice
  /\ CostOnArrival("r1") = 1
  /\ before["r1"].officers[request["r1"].officer_id].credits_remaining = 2
  /\ officers[request["r1"].officer_id].credits_remaining = 0
  /\ Cardinality(credit_transactions) = 2

\* the positions in calls[p] of the calls named in ops
CallsAt(p, ops) == {i \in DOMAIN calls[p] : calls[p][i].op \in ops}

\* C14: a request that passed gates 1-4 attempts the queries insert exactly
\* once, after its adapter outcome is known and whatever that outcome is; the
\* row has status Success exactly when the adapter succeeded and Failed
\* otherwise, and no queries row has status Processing or Pending.
C14_OneFinalLogEntry ==
  /\ \A r \in queries : r.status \in {"Success", "Failed"}
  /\ \A p \in Procs :
       LET inserts == CallsAt(p, {"queries.insert"})
           adapter == CallsAt(p, AdapterOps \cup {"default"})
       IN /\ Cardinality(inserts) <= 1
          /\ \A i \in inserts : \E j \in adapter : j < i
          /\ (Done(p) /\ apiDetails[p] # Nil /\ ~KeyUnusable(apiDetails[p])) =>
               /\ Cardinality(adapter) = 1
               /\ Cardinality(inserts) = 1
          /\ \A r \in QueriesOf(p) :
               r.status = IF apiResponse[p].success THEN "Success" ELSE "Failed"

\* one request logged a success and the other a failure, each with one insert
C14_Witness ==
  /\ Done("r1") /\ Done("r2")
  /\ \E r \in QueriesOf("r1") : r.status = "Success"
  /\ \E r \in QueriesOf("r2") : r.status = "Failed"
  /\ Cardinality(CallsAt("r2", {"queries.insert"})) = 1

\* C15 (as claimed): every JSON body the broker returns has a boolean success,
\* a result_summary and a numeric credits_used, may have data and error, and
\* has no other field.
C15_ResponseShape ==
  \A p \in Procs :
    (response[p] # Nil /\ Body(p) # Nil) =>
      /\ {"success", "result_summary", "credits_used"} \subseteq DOMAIN Body(p)
      /\ DOMAIN Body(p) \subseteq {"success", "data", "result_summary", "credits_used", "error"}
      /\ Body(p).success \in BOOLEAN
      /\ Body(p).credits_used \in Nat

\* C16: whatever the policies grant, a client that is not an administrator
\* is granted no read of an api_keys row, and on officers and queries is
\* granted only commands on the row whose id (officer_id) is its own
\* auth.uid(), writing a row that is still its own.
C16_PolicyConfinement ==
  (session # Nil /\ session.granted /\ session.who.uid \notin AdminUsers) =>
    /\ session.table # "api_keys"
    /\ session.table \in {"officers", "queries"}
    /\ session.who.uid = session.old
    /\ session.who.uid = session.new

\* an officer was granted an update of its own officers row
C16_Witness ==
  /\ session # Nil /\ session.granted
  /\ session.who = [role |-> "authenticated", uid |-> "o1"]
  /\ session.table = "officers" /\ session.cmd = "UPDATE" /\ session.old = "o1"

\* C17: the step that applies a Renewal or Top-up of amount a >= 0 raises the
\* officer's total_credits by exactly a; the step that applies a Deduction or
\* a Refund, and every other step (the broker's debit among them), leaves
\* total_credits as it was.
C17_TotalCreditsFrame ==
  [][\A o \in OfficerIds :
       IF adminPc = "update" /\ adminPc' = "done" /\ adminTx.officer_id = o
       THEN /\ (adminTx.action \in {"Renewal", "Top-up"} /\ adminTx.credits >= 0) =>
                 officers'[o].total_credits = officers[o].total_credits + adminTx.credits
            /\ adminTx.action \in {"Deduction", "Refund"} =>
                 officers'[o].total_credits = officers[o].total_credits
       ELSE officers'[o].total_credits = officers[o].total_credits]_vars

\* a Top-up of 1 has been applied, and a lookup has debited the same officer
C17_Witness ==
  /\ adminPc = "done"
  /\ \E t \in credit_transactions : t.req = "admin" /\ t.action = "Top-up" /\ t.credits = 1
  /\ \E t \in credit_transactions : t.req = "r1" /\ t.credits < 0
  /\ \A o \in OfficerIds : officers[o].total_credits = MaxCredits + 1

StaleRace ==
  /\ \A p \in Procs : "officers.update" \in CallOps(p)
  /\ officer["r1"].id = officer["r2"].id
  /\ officer["r1"].credits_remaining = officer["r2"].credits_remaining
  /\ officer["r1"].credits_remaining < planAPI["r1"].credit_cost + planAPI["r2"].credit_cost

\* C19 (as claimed): in that interleaving the officer's stored
\* credits_remaining has become negative.
C19_RaceGoesNegative ==
  StaleRace => officers[officer["r1"].id].credits_remaining < 0

\* C19 (amended): in that interleaving the later debit overwrites the earlier
\* one: the stored credits_remaining is the balance both read minus the cost
\* of one of the two lookups, and it is not negative.
C19_RaceLosesDebit ==
  StaleRace =>
    /\ \E p \in Procs :
         officers[officer["r1"].id].credits_remaining =
           officer["r1"].credits_remaining - planAPI[p].credit_cost
    /\ officers[officer["r1"].id].credits_remaining >= 0

\* both lookups of cost 1 passed on a balance of 1, both completed with their
\* Deduction row, and the balance is 0
C19_Witness ==
  /\ StaleRace
  /\ Done("r1") /\ Done("r2")
  /\ officer["r1"].credits_remaining = 1
  /\ \A p \in Procs : planAPI[p].credit_cost = 1 /\ Cardinality(TransactionsOf(p)) = 1
  /\ officers[officer["r1"].id].credits_remaining = 0

\* no lookup and no adjustment is in flight
Quiescent ==
  /\ \A p \in Procs : pc[p] \in {"idle", "done"}
  /\ adminPc \in {"idle", "done"}

\* the sum of the deltas of a set of ledger rows
RECURSIVE SumDeltas(_)
SumDeltas(rows) ==
  IF rows = {} THEN 0
  ELSE LET t == CHOOSE x \in rows : TRUE IN CreditChange(t) + SumDeltas(rows \ {t})

\* C20 (as claimed, for the lookups): whenever no lookup is in flight and the
\* console has made no adjustment, the officer's credits_remaining is its
\* value when the first lookup arrived plus the deltas of all
\* credit_transactions rows, under any interleaving of the lookups.
C20_LedgerLockstep ==
  \A o \in OfficerIds :
    (Quiescent /\ adminPc = "idle" /\ before["r1"] # Nil
       /\ \A p \in Procs : request[p] # Nil => WellFormed(request[p])) =>
      officers[o].credits_remaining =
        before["r1"].officers[o].credits_remaining
          + SumDeltas({t \in credit_transactions : t.officer_id = o})

\* the request issued a call of one of ops that the data store refused
CallFailed(p, ops) == \E i \in DOMAIN calls[p] : calls[p][i].op \in ops /\ ~calls[p][i].ok
CallSucceeded(p, ops) == \E i \in DOMAIN calls[p] : calls[p][i].op \in ops /\ calls[p][i].ok

\* C21 (as claimed): when the officer update or the credit_transactions
\* insert of step 7 fails after a successful adapter call, the caller still
\* receives the successful result (200, credits_used = credit_cost) and the
\* queries row written at step 6 is still there.
C21_DebitFailureKeepsResponse ==
  \A p \in Procs :
    (Done(p) /\ request[p] # Nil /\ WellFormed(request[p]) /\ AdapterSucceeded(p)
       /\ CallFailed(p, {"officers.update", "credit_transactions.insert"})) =>
      /\ Status(p) = 200
      /\ "credits_used" \in DOMAIN Body(p)
      /\ Body(p).credits_used = planAPI[p].credit_cost
      /\ Body(p).success
      /\ CallSucceeded(p, {"queries.insert"}) => Cardinality(QueriesOf(p)) = 1

\* C22 (as claimed): when the queries insert of step 6 fails the request goes
\* on: the caller receives the adapter's result with the status and body of
\* step 9, and after a successful adapter the officer update and the
\* credit_transactions insert are still issued.
C22_LogFailureNotFatal ==
  \A p \in Procs :
    (Done(p) /\ request[p] # Nil /\ WellFormed(request[p]) /\ AdapterAnswered(p)
       /\ CallFailed(p, {"queries.insert"})) =>
      /\ response[p] = FinalResponse(apiResponse[p], planAPI[p])
      /\ AdapterSucceeded(p) =>
           {"officers.update", "credit_transactions.insert"} \subseteq CallOps(p)

\* C23 (as claimed): an undisturbed request that passed gates 1-4 has raised
\* the usage_count of its service's credential by exactly 1 and set last_used,
\* whether the adapter succeeded or failed; a request refused at validation or
\* at a gate leaves the credentials as they were.
C23_UsageCounted ==
  \A p \in Procs :
    (Done(p) /\ ~disturbed[p] /\ request[p] # Nil) =>
      IF AdapterAnswered(p)
      THEN LET a == request[p].api_id IN
           /\ api_keys[a].usage_count = before[p].api_keys[a].usage_count + 1
           /\ api_keys[a].last_used = "now"
      ELSE api_keys = before[p].api_keys

\* C24 (as claimed): whatever happens at step 8, an exception raised while
\* the update is built included, the caller receives the status and body of
\* step 9: 200 or 400 with the adapter's result.
C24_UsageFailureSwallowed ==
  \A p \in Procs :
    (Done(p) /\ AdapterAnswered(p)) =>
      /\ Status(p) = IF apiResponse[p].success THEN 200 ELSE 400
      /\ Body(p) = FinalResponse(apiResponse[p], planAPI[p]).body

\* C27 (as claimed): no request whose adapter result has been obtained, logged
\* at step 6 and, on success, debited and recorded at step 7 is answered with
\* the generic 500 "Internal server error".
C27_NoGeneric500AfterDebit ==
  \A p \in Procs :
    (Done(p) /\ AdapterAnswered(p) /\ CallSucceeded(p, {"queries.insert"})
       /\ (AdapterSucceeded(p) =>
             /\ CallSucceeded(p, {"officers.update"})
             /\ CallSucceeded(p, {"credit_transactions.insert"}))) =>
      response[p] # InternalError

\* the position of a call in the handler's text
Rank(op) ==
  CASE op = "officers.select" -> 1
    [] op = "plan_apis.select" -> 2
    [] op = "apis.select" -> 3
    [] op \in AdapterOps \cup {"default"} -> 4
    [] op = "queries.insert" -> 5
    [] op = "officers.update" -> 6
    [] op = "credit_transactions.insert" -> 7
    [] op = "api_keys.update" -> 8

\* the calls of request p so far respect the order of the steps
OrderedCalls(p) ==
  LET cs == calls[p]
      Has(op) == op \in CallOps(p)
      Adapter == CallOps(p) \cap (AdapterOps \cup {"default"}) # {}
  IN /\ \A i, j \in DOMAIN cs : i < j => Rank(cs[i].op) < Rank(cs[j].op)
     /\ Adapter =>
          /\ Len(cs) >= 3
          /\ \A i \in 1..3 : Rank(cs[i].op) = i /\ cs[i].ok
          /\ officer[p] # Nil /\ officer[p].status = "Active"
          /\ planAPI[p] # Nil /\ planAPI[p].enabled
          /\ officer[p].credits_remaining >= planAPI[p].credit_cost
          /\ apiDetails[p] # Nil /\ apiDetails[p].api_keys # Nil
          /\ apiDetails[p].api_keys.status = "Active"
     /\ Has("queries.insert") => Adapter
     /\ Has("officers.update") => Has("queries.insert") /\ AdapterSucceeded(p)
     /\ Has("credit_transactions.insert") => Has("officers.update")
     /\ Has("api_keys.update") =>
          /\ Has("queries.insert")
          /\ AdapterSucceeded(p) => Has("credit_transactions.insert")
     /\ response[p] # Nil <=> Done(p)

\* C25: within one request the calls occur in the order of the handler's
\* text: the adapter only after the officer, entitlement and credential
\* selects all succeeded and the balance covered the cost; the queries insert
\* after the adapter; the officer update and the credit_transactions insert
\* after it and on adapter success only; the api_keys update after those; and
\* once the response exists the request makes no further call and the
\* response does not change.
C25_StepOrder ==
  /\ [](\A p \in Procs : OrderedCalls(p))
  /\ [][\A p \in Procs : response[p] # Nil =>
          calls'[p] = calls[p] /\ response'[p] = response[p]]_vars

\* a request has gone through all eight calls and has been answered
C25_Witness ==
  \E p \in Procs :
    /\ Done(p) /\ Len(calls[p]) = 8
    /\ \A i \in 1..8 : Rank(calls[p][i].op) = i
    /\ Status(p) = 200

\* C26: provided every data-store call and every provider call returns, a
\* request that has arrived is eventually answered; its response, once
\* produced, never changes; and it makes at most one adapter call: a failed
\* provider call is not retried.
C26_TerminatesWithoutRetry ==
  /\ \A p \in Procs : (pc[p] # "idle") ~> Done(p)
  /\ [](\A p \in Procs : Cardinality(CallsAt(p, AdapterOps \cup {"default"})) <= 1)
  /\ [][\A p \in Procs : response[p] # Nil => response'[p] = response[p]]_vars

\* a request whose provider call failed has been answered after that one call
C26_Witness ==
  \E p \in Procs :
    /\ Done(p) /\ AdapterThrew(p)
    /\ Cardinality(CallsAt(p, AdapterOps)) = 1
    /\ calls[p][Len(calls[p])].op \notin AdapterOps

\* C28 (as claimed): no step of the broker and no command of the console
\* removes or changes a queries row or a credit_transactions row: along every
\* execution both sets of rows only grow.
C28_LogsAppendOnly ==
  [][queries \subseteq queries' /\ credit_transactions \subseteq credit_transactions']_vars

\* the console's last command was updateRatePlan with an apiSettings list and
\* it returned without throwing
PlanEdited == adminPc = "done" /\ crud # Nil /\ crud.op = "updateRatePlan" /\ crud.given
RowsOfPlan(tbl, id) == {[api_id |-> a, row |-> tbl[<<id, a>>]] : a \in {b \in ApiIds : tbl[<<id, b>>] # Nil}}
RowsOfSettings(settings) ==
  {[api_id |-> settings[i].api_id, row |-> PlanRow(settings[i].enabled, settings[i].credit_cost)] :
     i \in DOMAIN settings}

\* C29 (as claimed): once updateRatePlan(id, updates, apiSettings) has
\* returned without throwing, the plan_apis rows of plan id are exactly the
\* supplied apiSettings, one row per entry and none from before the edit, and
\* the rows of every other plan are as they were.
C29_SettingsReplaced ==
  (PlanEdited /\ crud.ok) =>
    /\ RowsOfPlan(plan_apis, crud.id) = RowsOfSettings(crud.settings)
    /\ Cardinality(RowsOfPlan(plan_apis, crud.id)) = Len(crud.settings)
    /\ \A q \in PlanIds \ {crud.id} : RowsOfPlan(plan_apis, q) = RowsOfPlan(crud.plan_apis, q)

\* the apiSettings list names a service twice
NamesTwice(settings) ==
  \E i, j \in DOMAIN settings : i # j /\ settings[i].api_id = settings[j].api_id

\* C30 (as claimed): a console command that would create a second credential
\* for a service, or a second plan_apis row for one (plan, service) pair, is
\* rejected and leaves the rows that exist as they were: addAPIKey for a
\* service that has a key throws and the key keeps its text and status;
\* updateRatePlan with a list naming a service twice throws and the plan keeps
\* its rows.
C30_DuplicateRejected ==
  /\ (adminPc = "done" /\ crud # Nil /\ crud.op = "addAPIKey" /\ crud.api_keys[crud.id] # Nil) =>
       /\ ~crud.ok
       /\ api_keys[crud.id].api_key = crud.api_keys[crud.id].api_key
       /\ api_keys[crud.id].status = crud.api_keys[crud.id].status
  /\ (PlanEdited /\ NamesTwice(crud.settings)) =>
       /\ ~crud.ok
       /\ RowsOfPlan(plan_apis, crud.id) = RowsOfPlan(crud.plan_apis, crud.id)

\* C39: the credit gate is a non-strict test.  A request that read a balance
\* equal to the credit_cost of its entitlement is not refused with 402; if it
\* ran undisturbed and its adapter succeeded the officer ends with
\* credits_remaining = 0 and the ledger holds its Deduction row with
\* credits = -credit_cost, which for a service of cost 0 and a balance of 0
\* is a Deduction row with a delta of zero and a balance still 0.
C39_ExactBalancePasses ==
  \A p \in Procs :
    (officer[p] # Nil /\ planAPI[p] # Nil
       /\ officer[p].credits_remaining = planAPI[p].credit_cost) =>
      /\ pc[p] # "plan"
      /\ Done(p) => (Status(p) # 402 /\ "apis.select" \in CallOps(p))
      /\ (Done(p) /\ AdapterSucceeded(p) /\ ~disturbed[p]) =>
           /\ officers[officer[p].id].credits_remaining = 0
           /\ Cardinality(TransactionsOf(p)) = 1
           /\ \A t \in TransactionsOf(p) :
                t.action = "Deduction" /\ t.credits = -planAPI[p].credit_cost

\* both cases have happened: a lookup of cost 2 on a balance of 2, or a
\* lookup of cost 0 on a balance of 0, has been served and recorded
C39_Witness ==
  \E p \in Procs :
    /\ Done(p) /\ AdapterSucceeded(p) /\ ~disturbed[p]
    /\ officer[p].credits_remaining = planAPI[p].credit_cost
    /\ planAPI[p].credit_cost \in {0, 2}
    /\ before[p].officers[officer[p].id].credits_remaining = planAPI[p].credit_cost
    /\ officers[officer[p].id].credits_remaining = 0
    /\ \E t \in TransactionsOf(p) : t.credits = -planAPI[p].credit_cost

\* C35 (as claimed): the amount charged is the credit_cost read at gate 2,
\* never the adapter's own credits_used.  For a well-formed undisturbed lookup
\* whose adapter succeeded, the queries row's credits_used, the response's
\* credits_used, the magnitude of the credit_transactions row's credits and
\* the amount taken from the balance all equal that credit_cost; for one
\* whose adapter failed, the logged and the returned credits_used are both 0.
C35_ChargedAmount ==
  \A p \in Procs :
    (Done(p) /\ ~disturbed[p] /\ AdapterAnswered(p) /\ WellFormed(request[p])) =>
      LET cost == IF apiResponse[p].success THEN planAPI[p].credit_cost ELSE 0
          o == officer[p].id
      IN /\ \A q \in QueriesOf(p) : q.credits_used = cost
         /\ QueriesOf(p) # {}
         /\ "credits_used" \in DOMAIN Body(p) /\ Body(p).credits_used = cost
         /\ apiResponse[p].success =>
              /\ TransactionsOf(p) # {}
              /\ \A t \in TransactionsOf(p) : Abs(t.credits) = cost
              /\ before[p].officers[o].credits_remaining - officers[o].credits_remaining = cost

\* an administrator's Top-up of officer o has been applied through the
\* console's balance write (the console had its list loaded)
ToppedUp(o) ==
  /\ adminPc = "done" /\ cachedOfficers # <<>>
  /\ \E t \in credit_transactions :
       t.req = "admin" /\ t.officer_id = o /\ t.action = "Top-up" /\ t.credits > 0

\* C32: the balance step 7 writes is the credits_remaining read at gate 1
\* minus the credit_cost, whatever the stored balance is at that moment; so
\* when a Top-up was committed after the gate-1 read and the lookup's debit is
\* the last write, the balance ends at old - cost and the Top-up is gone.
C32_DebitOverwrites ==
  [][\A p \in Procs :
       (pc[p] = "debit" /\ pc'[p] = "tx" /\ officer[p].id \in DOMAIN officers) =>
         officers'[officer[p].id].credits_remaining
           = officer[p].credits_remaining - planAPI[p].credit_cost]_vars

\* a Top-up landed between the gate-1 read and the step-7 write of a
\* successful lookup: the console's reloaded list shows the topped-up
\* balance, above what gate 1 had read, while the store holds old - cost
C32_Witness ==
  \E p \in Procs :
    LET o == officer[p].id IN
    /\ Done(p) /\ AdapterSucceeded(p) /\ CallSucceeded(p, {"officers.update"})
    /\ ToppedUp(o)
    /\ cachedOfficers[o].credits_remaining > officer[p].credits_remaining
    /\ officer[p].credits_remaining = before[p].officers[o].credits_remaining
    /\ officers[o].credits_remaining = officer[p].credits_remaining - planAPI[p].credit_cost
    /\ planAPI[p].credit_cost > 0

\* the signed amount of an adjustment, as the console's form states it
SignedAmount(td) == IF td.action = "Deduction" THEN -Abs(td.credits) ELSE Abs(td.credits)

\* C36: addTransaction inserts the credit_transactions row first and writes
\* the officer's balance second, from the console's cached list.  A call that
\* inserted its row and found no such officer in the cached list ends with
\* the officers table untouched; while the balance write is pending the row
\* is already stored, and that write leaves the row in place and either fails,
\* leaving the officer as it was, or stores max(0, cached credits_remaining +
\* amount) and the cached total_credits (plus the amount for Renewal and
\* Top-up), whatever the stored balance had become since the list was loaded.
C36_AdjustmentFromCache ==
  /\ [](adminPc = "update" => (adminTx @@ [req |-> "admin"]) \in credit_transactions)
  /\ [][(adminPc = "idle" /\ adminPc' = "done" /\ credit_transactions' # credit_transactions)
          => officers' = officers]_vars
  /\ [][(adminPc = "update" /\ adminPc' = "done") =>
          LET o == adminTx.officer_id
              c == cachedOfficers[o]
          IN /\ credit_transactions' = credit_transactions
             /\ \/ officers' = officers
                \/ /\ officers'[o].credits_remaining
                        = Max(0, c.credits_remaining + SignedAmount(adminTx))
                   /\ officers'[o].total_credits
                        = c.total_credits + (IF adminTx.action \in {"Renewal", "Top-up"}
                                             THEN Abs(adminTx.credits) ELSE 0)]_vars

\* a Top-up computed from a stale list has discarded a lookup's debit: the
\* lookup debited a positive cost after the list was loaded, and the store
\* ends at the balance on the lookup's arrival plus the Top-up
C36_Witness ==
  \E p \in Procs :
    LET o == officer[p].id IN
    /\ Done(p) /\ AdapterSucceeded(p) /\ CallSucceeded(p, {"officers.update"})
    /\ planAPI[p].credit_cost > 0
    /\ ToppedUp(o)
    /\ \E t \in credit_transactions :
         /\ t.req = "admin" /\ t.action = "Top-up"
         /\ officers[o].credits_remaining = before[p].officers[o].credits_remaining + t.credits

NotEnabledForPlan == <<"API not enabled for your plan">>

\* C33: between the delete and the insert of updateRatePlan the plan has no
\* plan_apis row at all, and a lookup by an officer of that plan whose gate 2
\* runs inside that window is answered 403 "API not enabled for your plan",
\* also for a service the plan offers both before and after the edit.
C33_EditWindow ==
  /\ [](adminPc = "plan_insert" => \A a \in ApiIds : plan_apis[<<adminTx.id, a>>] = Nil)
  /\ [][\A p \in Procs :
          (pc[p] = "plan" /\ pc'[p] # "plan" /\ adminPc = "plan_insert"
             /\ officer[p].plan_id = adminTx.id) =>
            /\ response'[p].status = 403
            /\ response'[p].body.error = NotEnabledForPlan]_vars

\* a lookup was refused with 403 although the service was enabled for the
\* officer's plan when the request arrived and is enabled now that the edit
\* has completed
C33_Witness ==
  \E p \in Procs :
    /\ Done(p) /\ officer[p] # Nil /\ request[p].api_id \in ApiIds
    /\ Status(p) = 403 /\ Body(p).error = NotEnabledForPlan
    /\ PlanEdited /\ crud.ok /\ crud.id = officer[p].plan_id
    /\ LET k == <<crud.id, request[p].api_id>> IN
       /\ before[p].plan_apis[k] # Nil /\ before[p].plan_apis[k].enabled
       /\ plan_apis[k] # Nil /\ plan_apis[k].enabled

\* C34: updateRatePlan is not atomic.  When its insert fails after its delete
\* succeeded the command throws, the plan is left without any plan_apis row
\* and the fields written to rate_plans stay written; and a command given a
\* non-empty list ends at its first two calls only when the rate_plans update
\* itself failed, so a refused delete is passed over and the insert is still
\* issued.
C34_EditNotAtomic ==
  /\ []((PlanEdited /\ ~crud.ok /\ crud.deleted) =>
          /\ RowsOfPlan(plan_apis, crud.id) = {}
          /\ rate_plans[crud.id].status = crud.updates.status)
  /\ [][(adminPc = "idle" /\ adminPc' = "done" /\ crud' # Nil /\ crud'.op = "updateRatePlan"
             /\ crud'.given /\ crud'.settings # <<>>) =>
          (~crud'.ok /\ plan_apis' = plan_apis /\ rate_plans' = rate_plans)]_vars
  /\ [][(adminPc = "plan_insert" /\ adminPc' = "done") =>
          IF crud'.ok
          THEN RowsOfSettings(crud'.settings) \subseteq RowsOfPlan(plan_apis', crud'.id)
          ELSE plan_apis' = plan_apis]_vars

\* an edit that set the plan Inactive and named a service twice has thrown:
\* the rows the plan had are gone and the plan is Inactive
C34_Witness ==
  /\ PlanEdited /\ ~crud.ok /\ crud.deleted
  /\ RowsOfPlan(crud.plan_apis, crud.id) # {}
  /\ RowsOfPlan(plan_apis, crud.id) = {}
  /\ crud.updates.status = "Inactive" /\ rate_plans[crud.id].status = "Inactive"

\* C31: the plan_apis row for (officer.plan_id, api_id) alone decides the
\* entitlement and the price: a request that passed gate 1 and ran beside no
\* other writer is refused "API not enabled for your plan" exactly when that
\* row is absent or disabled, and otherwise the cost tested at gate 3, debited
\* and recorded is the row's credit_cost, whatever rate_plans.status and
\* apis.type are.
C31_RowAloneDecides ==
  \A p \in Procs :
    (Done(p) /\ ~disturbed[p] /\ officer[p] # Nil) =>
      LET o == officer[p].id
          was == before[p].officers[o]
          key == <<was.plan_id, request[p].api_id>>
      IN
      /\ NoEnabledRow(before[p].plan_apis, key[1], key[2])
           <=> (Status(p) = 403 /\ Body(p).error = <<"API not enabled for your plan">>)
      /\ ~NoEnabledRow(before[p].plan_apis, key[1], key[2]) =>
           LET cost == before[p].plan_apis[key].credit_cost IN
           /\ planAPI[p].credit_cost = cost
           /\ Status(p) = 402 <=> was.credits_remaining < cost
           /\ \A t \in TransactionsOf(p) : t.credits = -cost
           /\ (AdapterSucceeded(p) /\ o \in DOMAIN officers) =>
                officers[o].credits_remaining = was.credits_remaining - cost

\* a lookup on an Inactive plan for a service of type DISABLED has been served
\* and charged the row's cost
C31_Witness ==
  \E p \in Procs :
    /\ Done(p) /\ ~disturbed[p] /\ AdapterSucceeded(p)
    /\ rate_plans[officer[p].plan_id] # Nil
    /\ rate_plans[officer[p].plan_id].status = "Inactive"
    /\ apis[request[p].api_id] # Nil
    /\ apis[request[p].api_id].type = "DISABLED"
    /\ planAPI[p].credit_cost >= 1
    /\ \E t \in TransactionsOf(p) : t.credits = -planAPI[p].credit_cost

\* every foreign key names an existing row
RefIntegrity ==
  /\ \A o \in DOMAIN officers :
       \/ officers[o].plan_id = NULL
       \/ officers[o].plan_id \in PlanIds /\ rate_plans[officers[o].plan_id] # Nil
  /\ \A k \in DOMAIN plan_apis :
       plan_apis[k] # Nil => (rate_plans[k[1]] # Nil /\ apis[k[2]] # Nil)
  /\ \A a \in DOMAIN api_keys : api_keys[a] # Nil => apis[a] # Nil

\* C37: after any sequence of deletes by the console every officer's plan_id
\* is null or names an existing plan and every plan_apis and api_keys row names
\* an existing plan and service; deleting a plan sets plan_id null on the
\* officers that were on it and changes nothing else of them; a valid request
\* of an officer whose plan_id is null never passes gate 2 and is answered
\* 403; deleting a service removes its credential and its plan_apis rows.
C37_ReferentialIntegrity ==
  /\ []RefIntegrity
  /\ [][\A id \in PlanIds :
          (rate_plans[id] # Nil /\ rate_plans'[id] = Nil) =>
            /\ DOMAIN officers' = DOMAIN officers
            /\ \A o \in DOMAIN officers :
                 officers'[o] = IF officers[o].plan_id = id
                                THEN [officers[o] EXCEPT !.plan_id = NULL]
                                ELSE officers[o]
            /\ \A a \in ApiIds : plan_apis'[<<id, a>>] = Nil]_vars
  /\ [](\A p \in Procs :
          (request[p] # Nil /\ ValidRequest(request[p])
             /\ request[p].officer_id \in DOMAIN before[p].officers
             /\ before[p].officers[request[p].officer_id].plan_id = NULL) =>
            /\ pc[p] \in {"officer", "plan", "done"}
            /\ Done(p) => Status(p) = 403)
  /\ [][\A a \in ApiIds :
          (apis[a] # Nil /\ apis'[a] = Nil) =>
            /\ api_keys'[a] = Nil
            /\ \A id \in PlanIds : plan_apis'[<<id, a>>] = Nil]_vars

\* a plan with officers on it has been deleted and a later lookup of such an
\* officer was refused at gate 2; a service with a credential has been deleted
C37_Witness ==
  /\ crud # Nil /\ crud.op = "deleteAPI" /\ crud.ok
  /\ crud.api_keys[crud.id] # Nil /\ api_keys[crud.id] = Nil
  /\ \E p \in Procs, id \in PlanIds :
       /\ rate_plans[id] = Nil
       /\ Done(p) /\ officer[p] # Nil /\ officer[p].plan_id = NULL
       /\ Status(p) = 403 /\ Body(p).error = <<"API not enabled for your plan">>
       /\ "plan_apis.select" \in CallOps(p)

====
